---- MODULE Spec2Model ----
(***************************************************************************)
(* A model of the RES4 archive extractor (src/main.rs).                    *)
(*                                                                         *)
(* The program is one sequential run of main over one archive file.  The   *)
(* archive is a byte string; every read of the program is a read of bytes  *)
(* of that string at the file cursor.  u32 and u64 quantities are kept at  *)
(* their width: a number is a pair <<hi, lo>> of base-65536 limbs, so that *)
(* 0xFFFFFFFF is <<65535, 65535>> and wrapping at 2^32 is hi % 65536.      *)
(***************************************************************************)
EXTENDS Integers, Sequences, FiniteSets

\* ------------------------------------------------------------------ bounds

\* The largest number of archived entries of an input archive.
MaxFiles == 2

\* ------------------------------------------------------- program constants

\* On-disk width of a FileNameEntry: 4 + 64 + 5 * 4 (main.rs:116).
NameEntrySize == 88
\* Width of the padded name field (main.rs:70).
NameFieldLen == 64
\* Width of a FileTypeEntry: two u32 (main.rs:51-56).
TypeEntrySize == 4 + 4
\* Width of the archive header: magic, start, end, size (main.rs:97-103).
HeaderSize == 4 * 4

\* --------------------------------------------------------------- numbers

B16 == 256 * 256

\* The number k (a small non-negative integer) as limbs.
N(k) == <<k \div B16, k % B16>>

\* Exact sum, exact product with a small factor, comparison.
Add(a, b) == <<a[1] + b[1] + ((a[2] + b[2]) \div B16), (a[2] + b[2]) % B16>>
Mul(a, k) == <<a[1] * k + ((a[2] * k) \div B16), (a[2] * k) % B16>>
Lt(a, b)  == a[1] < b[1] \/ (a[1] = b[1] /\ a[2] < b[2])
Le(a, b)  == a = b \/ Lt(a, b)

\* a - b for b <= a.
Sub(a, b) ==
    IF a[2] >= b[2] THEN <<a[1] - b[1], a[2] - b[2]>>
                    ELSE <<a[1] - b[1] - 1, a[2] + B16 - b[2]>>

\* Truncation to 32 bits, and whether a value fits in 32 bits.
Wrap32(a) == <<a[1] % B16, a[2]>>
FitsU32(a) == a[1] < B16

\* A number known to be small, as an integer.
ToInt(a) == a[1] * B16 + a[2]

\* The four little-endian bytes of a u32.
Bytes4(a) == <<a[2] % 256, a[2] \div 256, a[1] % 256, a[1] \div 256>>

\* 'RES4' = 0x52455334 and 'SND2' = 0x534E4432.
MagicRES4 == <<21061, 21300>>
KindSND2  == <<21326, 17458>>
\* 0xFFFFFFFF
MaxU32 == <<B16 - 1, B16 - 1>>

\* ".wav" and "RIFF" as bytes.
DotWav == <<46, 119, 97, 118>>
RIFF   == <<82, 73, 70, 70>>

\* --------------------------------------------------- the archive "Game.rgs"

\* The bytes of the file main opens (main.rs:89).
VARIABLES file

FileByte(p) == file[p + 1]
FileLen == Len(file)

(* An input archive is described by what an archive writer laid out and by  *)
(* what was then altered in it:                                             *)
(*   entries  one record per archived file: the fields of its name entry    *)
(*            and the payload bytes physically stored after the inline copy *)
(*   gap      padding bytes between the type table and the tail name table  *)
(*   patches  byte strings written over the laid-out file, in order         *)
(*   cut      bytes removed from the end of the file                        *)
(* Layout: header | (inline name entry, payload)* | count, type entries |   *)
(* gap | tail name entries.                                                 *)
NumEntries(a) == Len(a.entries)

RECURSIVE BlockOff(_, _)
\* Offset of the i-th block (1-based); i = NumEntries + 1 is the type table.
BlockOff(a, i) ==
    IF i = 1 THEN HeaderSize
    ELSE BlockOff(a, i - 1) + NameEntrySize + Len(a.entries[i - 1].payload)

TableStart(a) == BlockOff(a, NumEntries(a) + 1)
TableEnd(a)   == TableStart(a) + 4 + TypeEntrySize * NumEntries(a) + a.gap
LaidOutSize(a) == TableEnd(a) + NameEntrySize * NumEntries(a)

RECURSIVE Repeat(_, _)
Repeat(b, k) == IF k = 0 THEN <<>> ELSE <<b>> \o Repeat(b, k - 1)

\* The 88-byte record of entry e stored with index idx.
EntryBytes(e, idx) ==
    Bytes4(N(idx)) \o e.name \o Repeat(0, NameFieldLen - Len(e.name))
        \o Bytes4(e.unk2) \o Bytes4(e.size_in_bytes) \o Bytes4(e.sample_rate)
        \o Bytes4(e.unk5) \o Bytes4(e.probably_channel_count)

RECURSIVE Blocks(_, _)
\* The blocks i.. : inline entry and payload of each.
Blocks(a, i) ==
    IF i > NumEntries(a) THEN <<>>
    ELSE EntryBytes(a.entries[i], i - 1) \o a.entries[i].payload \o Blocks(a, i + 1)

RECURSIVE TypeEntries(_, _)
TypeEntries(a, i) ==
    IF i > NumEntries(a) THEN <<>>
    ELSE Bytes4(KindSND2) \o Bytes4(N(BlockOff(a, i))) \o TypeEntries(a, i + 1)

RECURSIVE TailEntries(_, _)
TailEntries(a, i) ==
    IF i > NumEntries(a) THEN <<>>
    ELSE EntryBytes(a.entries[i], i - 1) \o TailEntries(a, i + 1)

LaidOut(a) ==
    Bytes4(MagicRES4) \o Bytes4(N(TableStart(a))) \o Bytes4(N(TableEnd(a)))
        \o Bytes4(N(NameEntrySize * NumEntries(a)))
        \o Blocks(a, 1)
        \o Bytes4(N(NumEntries(a))) \o TypeEntries(a, 1)
        \o Repeat(0, a.gap)
        \o TailEntries(a, 1)

RECURSIVE Patched(_, _, _)
\* f after the patches m.. of a, each written over what is there.
Patched(a, m, f) ==
    IF m > Len(a.patches) THEN f
    ELSE LET q == a.patches[m]
         IN  Patched(a, m + 1,
                 SubSeq(f, 1, q.at) \o q.val \o SubSeq(f, q.at + Len(q.val) + 1, Len(f)))

\* The bytes of the archive described by a.
FileOf(a) ==
    LET f == Patched(a, 1, LaidOut(a))
    IN  SubSeq(f, 1, Len(f) - a.cut)

\* ------------------------------------------------------- the input archives

\* What an archive writer may store for one file.  Two profiles share the
\* name "a.wav" with different payloads; one name fills all 64 bytes.
WavRiff ==
    [name |-> <<97, 46, 119, 97, 118>>, unk2 |-> N(0), size_in_bytes |-> N(4),
     sample_rate |-> N(44100), unk5 |-> N(16), probably_channel_count |-> N(2),
     payload |-> RIFF]
WavNoRiff ==
    [name |-> <<97, 46, 119, 97, 118>>, unk2 |-> N(0), size_in_bytes |-> N(5),
     sample_rate |-> N(44100), unk5 |-> N(8), probably_channel_count |-> N(1),
     payload |-> <<74, 85, 78, 75, 33>>]
WavShort ==
    [name |-> <<98, 46, 119, 97, 118>>, unk2 |-> N(0), size_in_bytes |-> N(2),
     sample_rate |-> N(44100), unk5 |-> N(8), probably_channel_count |-> N(1),
     payload |-> <<1, 2>>]
Mp3 ==
    [name |-> <<99, 46, 109, 112, 51>>, unk2 |-> N(9), size_in_bytes |-> N(3),
     sample_rate |-> N(0), unk5 |-> N(0), probably_channel_count |-> N(0),
     payload |-> <<73, 68, 51>>]
WavNothingStored ==
    [name |-> <<100, 46, 119, 97, 118>>, unk2 |-> N(0), size_in_bytes |-> N(4),
     sample_rate |-> N(44100), unk5 |-> N(16), probably_channel_count |-> N(2),
     payload |-> <<>>]
Mp3Empty ==
    [name |-> Repeat(101, NameFieldLen - 4) \o <<46, 109, 112, 51>>,
     unk2 |-> N(9), size_in_bytes |-> N(0),
     sample_rate |-> N(0), unk5 |-> N(0), probably_channel_count |-> N(0),
     payload |-> <<>>]

Profiles == {WavRiff, WavNoRiff, WavShort, Mp3, WavNothingStored, Mp3Empty}

EntryLists == UNION {[1..k -> Profiles] : k \in 0..MaxFiles}

Plain(es) == [entries |-> es, gap |-> 0, patches |-> <<>>, cut |-> 0]
Patch(o, v) == [at |-> o, val |-> v]

\* Alterations of a laid-out archive that touch the header or the tables.
TableMutations(es) ==
    LET a  == Plain(es)
        n  == Len(es)
        ts == TableStart(a)
        te == TableEnd(a)
        sz == LaidOutSize(a)
    IN  { a,
          \* a wrong magic
          [a EXCEPT !.patches = <<Patch(0, Bytes4(KindSND2))>>],
          \* a name-table size that is off by one
          [a EXCEPT !.patches = <<Patch(12, Bytes4(N(NameEntrySize * n + 1)))>>],
          \* a file that lost its last byte
          [a EXCEPT !.cut = 1],
          \* a count that is off by one
          [a EXCEPT !.patches = <<Patch(ts, Bytes4(N(n + 1)))>>],
          \* padding after the type table
          [a EXCEPT !.gap = TypeEntrySize],
          \* filetypes_end before filetypes_start, the file size agreeing with it
          [a EXCEPT !.patches = <<Patch(8, Bytes4(N(ts - 8)))>>, !.cut = te - ts + 8],
          \* the two table offsets of the header exchanged
          [a EXCEPT !.patches = <<Patch(4, Bytes4(N(te))), Patch(8, Bytes4(N(ts)))>>],
          \* filetypes_end + filenames_size = 2^32 + file size, table at the end
          [a EXCEPT !.patches = <<Patch(4, Bytes4(N(sz))),
                                  Patch(8, Bytes4(MaxU32)),
                                  Patch(12, Bytes4(N(sz + 1)))>>] }
        \cup
        \* num_files = 48806447, so that num_files * 88 = 2^32 + 40, and
        \* filenames_size = 40
        { [a EXCEPT !.patches = <<Patch(12, Bytes4(N(40))),
                                  Patch(ts, Bytes4(<<744, 47663>>))>>,
                    !.cut = NameEntrySize * i - 40] : i \in {n} \ {0} }
        \cup
        { [a EXCEPT !.patches = <<Patch(ts + 4 + TypeEntrySize * (i - 1), Bytes4(MagicRES4))>>]
            : i \in 1..n }
        \cup
        { [a EXCEPT !.patches = <<Patch(ts + 8 + TypeEntrySize * (i - 1), Bytes4(N(sz - d)))>>]
            : i \in 1..n, d \in {0, 1} }
        \cup
        \* the next block declared to start right after this inline entry
        { [a EXCEPT !.patches = <<Patch(ts + 8 + TypeEntrySize * i,
                                        Bytes4(N(BlockOff(a, i) + NameEntrySize)))>>]
            : i \in 1..(n - 1) }

\* Alterations of one copy of a name entry.
EntryMutations(es) ==
    LET a  == Plain(es)
        n  == Len(es)
        te == TableEnd(a)
    IN  \* one decoded field of the tail copy changed
        { [a EXCEPT !.patches = <<Patch(te + NameEntrySize * (i - 1) + o, <<7>>)>>]
            : i \in 1..n, o \in {0, 4, 68, 72, 76, 80, 84} }
        \cup
        \* the last byte of the tail copy's name field changed
        { [a EXCEPT !.patches = <<Patch(te + NameEntrySize * (i - 1) + 3 + NameFieldLen, <<88>>)>>]
            : i \in 1..n }
        \cup
        \* both copies of the last entry declare a payload of 2^32 - 1 bytes
        { [a EXCEPT !.patches = <<Patch(BlockOff(a, i) + 72, Bytes4(MaxU32)),
                                  Patch(te + NameEntrySize * (i - 1) + 72, Bytes4(MaxU32))>>]
            : i \in {n} \ {0} }

Archives == UNION {TableMutations(es) \cup EntryMutations(es) : es \in EntryLists}

InputFiles == {FileOf(a) : a \in Archives}

\* ------------------------------------------------------------- the readers

\* read_exact of len bytes at cursor p succeeds iff the file holds them.
CanRead(p, len) == Le(Add(p, len), N(FileLen))

\* ReadBytesExt::read_u32::<LittleEndian> at offset p.
read_u32(p) ==
    <<FileByte(p + 2) + 256 * FileByte(p + 3), FileByte(p) + 256 * FileByte(p + 1)>>

read_bytes_vec(p, len) == [k \in 1..len |-> FileByte(p + k - 1)]

RECURSIVE PushUntilNul(_, _, _)
\* The loop of read_padded_string over bytes k.. of the array, s so far.
PushUntilNul(arr, k, s) ==
    IF k > Len(arr) THEN s
    ELSE IF arr[k] # 0 THEN PushUntilNul(arr, k + 1, Append(s, arr[k]))
    ELSE s

read_padded_string(p) == PushUntilNul(read_bytes_vec(p, NameFieldLen), 1, <<>>)

read_file_type_entry(p) == [kind |-> read_u32(p), addr |-> read_u32(p + 4)]

read_file_type_table(p, n) ==
    [i \in 1..n |-> read_file_type_entry(p + TypeEntrySize * (i - 1))]

read_file_name_entry(p) ==
    [index                  |-> read_u32(p),
     name                   |-> read_padded_string(p + 4),
     unk2                   |-> read_u32(p + 4 + NameFieldLen),
     size_in_bytes          |-> read_u32(p + 8 + NameFieldLen),
     sample_rate            |-> read_u32(p + 12 + NameFieldLen),
     unk5                   |-> read_u32(p + 16 + NameFieldLen),
     probably_channel_count |-> read_u32(p + 20 + NameFieldLen)]

read_file_name_table(p, n) ==
    [i \in 1..n |-> read_file_name_entry(p + NameEntrySize * (i - 1))]

\* str::ends_with
ends_with(s, suffix) ==
    Len(s) >= Len(suffix) /\ SubSeq(s, Len(s) - Len(suffix) + 1, Len(s)) = suffix

\* ------------------------------------------------------- the program state

VARIABLES
    overflow_checks,  \* the build: TRUE panics on u32 overflow, FALSE wraps
    pc,               \* the statement of main to run next, or that failed
    err,              \* how the run failed, "none" while it has not
    pos,              \* the cursor of fh
    file_size,
    filetypes_start, filetypes_end, filenames_size,
    num_files,
    file_type_table,
    unneccessary_file_name_table,
    index,
    filename_entry,
    bytes,
    dump,             \* the files of dump/: name -> content
    stdout,           \* the indices announced by "[i/n] extracting"
    stderr,           \* the warnings: <<index, what>>
    payload_reads,    \* the indices whose payload read_bytes_vec has read
    writes            \* the indices std::fs::write was called for, in order

header == <<filetypes_start, filetypes_end, filenames_size>>
tables == <<num_files, file_type_table, unneccessary_file_name_table>>
entry  == <<index, filename_entry, bytes>>
output == <<dump, stdout, stderr, payload_reads, writes>>
vars   == <<file, overflow_checks, pc, err, pos, file_size,
            header, tables, entry, output>>

NoEntry ==
    [index |-> N(0), name |-> <<>>, unk2 |-> N(0), size_in_bytes |-> N(0),
     sample_rate |-> N(0), unk5 |-> N(0), probably_channel_count |-> N(0)]

\* main.rs:89-95: the file is open, its size known, the cursor at 0.
Init ==
    /\ file \in InputFiles
    /\ overflow_checks \in BOOLEAN
    /\ pc = "magic"
    /\ err = "none"
    /\ pos = N(0)
    /\ file_size = N(FileLen)
    /\ filetypes_start = N(0) /\ filetypes_end = N(0) /\ filenames_size = N(0)
    /\ num_files = N(0)
    /\ file_type_table = <<>>
    /\ unneccessary_file_name_table = <<>>
    /\ index = 0
    /\ filename_entry = NoEntry
    /\ bytes = <<>>
    /\ dump = <<>>
    /\ stdout = <<>>
    /\ stderr = <<>>
    /\ payload_reads = {}
    /\ writes = <<>>

\* A failed assert!, a panic or an Err returned by main: the run stops at the
\* statement it was at.
Abort(e) == pc' = pc /\ err' = e

\* main.rs:97-98
ReadMagic ==
    /\ pc = "magic"
    /\ err = "none"
    /\ IF ~CanRead(pos, N(4)) THEN Abort("IOError") /\ pos' = pos
       ELSE IF read_u32(ToInt(pos)) # MagicRES4 THEN Abort("FormatError") /\ pos' = pos
       ELSE pc' = "header" /\ err' = err /\ pos' = Add(pos, N(4))
    /\ UNCHANGED <<file, overflow_checks, file_size, header, tables, entry, output>>

\* main.rs:110: file_size == (filetypes_end + filenames_size) as u64
FileSizeAgrees(fsize, tend, nsize) == fsize = Wrap32(Add(tend, nsize))

\* A header reader that takes the two table offsets in the wrong order.
ReadHeader_FieldsSwapped ==
    /\ pc = "header"
    /\ err = "none"
    /\ LET p     == ToInt(pos)
           start == read_u32(p + 4)
           end   == read_u32(p)
           size  == read_u32(p + 8)
       IN  IF ~CanRead(pos, N(8)) THEN
               Abort("IOError") /\ UNCHANGED <<pos, header>>
           ELSE IF overflow_checks /\ Lt(end, start) THEN
               Abort("ArithmeticOverflow") /\ UNCHANGED <<pos, header>>
           ELSE IF ~CanRead(pos, N(12)) THEN
               Abort("IOError") /\ UNCHANGED <<pos, header>>
           ELSE IF overflow_checks /\ ~FitsU32(Add(end, size)) THEN
               Abort("ArithmeticOverflow") /\ UNCHANGED <<pos, header>>
           ELSE
               /\ filetypes_start' = start
               /\ filetypes_end' = end
               /\ filenames_size' = size
               /\ pos' = Add(pos, N(12))
               /\ IF FileSizeAgrees(file_size, end, size)
                  THEN pc' = "numfiles" /\ err' = err
                  ELSE Abort("FormatError")
    /\ UNCHANGED <<file, overflow_checks, file_size, tables, entry, output>>

\* main.rs:100-110
ReadHeader ==
    /\ pc = "header"
    /\ err = "none"
    /\ LET p     == ToInt(pos)
           start == read_u32(p)
           end   == read_u32(p + 4)
           size  == read_u32(p + 8)
       IN  IF ~CanRead(pos, N(8)) THEN
               Abort("IOError") /\ UNCHANGED <<pos, header>>
           ELSE IF overflow_checks /\ Lt(end, start) THEN
               Abort("ArithmeticOverflow") /\ UNCHANGED <<pos, header>>
           ELSE IF ~CanRead(pos, N(12)) THEN
               Abort("IOError") /\ UNCHANGED <<pos, header>>
           ELSE IF overflow_checks /\ ~FitsU32(Add(end, size)) THEN
               Abort("ArithmeticOverflow") /\ UNCHANGED <<pos, header>>
           ELSE
               /\ filetypes_start' = start
               /\ filetypes_end' = end
               /\ filenames_size' = size
               /\ pos' = Add(pos, N(12))
               /\ IF FileSizeAgrees(file_size, end, size)
                  THEN pc' = "numfiles" /\ err' = err
                  ELSE Abort("FormatError")
    /\ UNCHANGED <<file, overflow_checks, file_size, tables, entry, output>>

\* main.rs:116: filenames_size == num_files * 88
NameTableSizeAgrees(nsize, n) == nsize = Wrap32(Mul(n, NameEntrySize))

\* main.rs:112-116
ReadNumFiles ==
    /\ pc = "numfiles"
    /\ err = "none"
    /\ LET n == read_u32(ToInt(filetypes_start))
       IN  IF ~CanRead(filetypes_start, N(4)) THEN
               Abort("IOError") /\ pos' = filetypes_start /\ num_files' = num_files
           ELSE IF overflow_checks /\ ~FitsU32(Mul(n, NameEntrySize)) THEN
               Abort("ArithmeticOverflow") /\ pos' = Add(filetypes_start, N(4))
               /\ num_files' = n
           ELSE
               /\ num_files' = n
               /\ pos' = Add(filetypes_start, N(4))
               /\ IF NameTableSizeAgrees(filenames_size, n)
                  THEN pc' = "typetable" /\ err' = err
                  ELSE Abort("FormatError")
    /\ UNCHANGED <<file, overflow_checks, file_size, header,
                   file_type_table, unneccessary_file_name_table, entry, output>>

\* A range check that admits dataOffset = file size.
TypeEntryOk_OffByOne(e, fsize) == Le(e.addr, fsize) /\ e.kind = KindSND2

\* main.rs:120-121
TypeEntryOk(e, fsize) == Lt(e.addr, fsize) /\ e.kind = KindSND2

\* main.rs:118-122
ReadTypeTable ==
    /\ pc = "typetable"
    /\ err = "none"
    /\ IF ~CanRead(pos, Mul(num_files, TypeEntrySize)) THEN
           Abort("IOError") /\ UNCHANGED <<pos, file_type_table>>
       ELSE
           LET t == read_file_type_table(ToInt(pos), ToInt(num_files))
           IN  /\ file_type_table' = t
               /\ pos' = Add(pos, Mul(num_files, TypeEntrySize))
               /\ IF \A i \in 1..Len(t) : TypeEntryOk(t[i], file_size)
                  THEN pc' = "position" /\ err' = err
                  ELSE Abort("FormatError")
    /\ UNCHANGED <<file, overflow_checks, file_size, header, num_files,
                   unneccessary_file_name_table, entry, output>>

\* A boundary check that admits padding after the type entries.
PositionAgrees_AtMost(p, tend) == Le(p, tend)

\* main.rs:124: fh.stream_position()? == filetypes_end as u64
PositionAgrees(p, tend) == p = tend

\* main.rs:124
CheckPosition ==
    /\ pc = "position"
    /\ err = "none"
    /\ IF PositionAgrees(pos, filetypes_end)
       THEN pc' = "nametable" /\ err' = err
       ELSE Abort("FormatError")
    /\ UNCHANGED <<file, overflow_checks, pos, file_size, header, tables,
                   entry, output>>

\* main.rs:127 (and 163-166: dump/ exists from here on)
ReadNameTable ==
    /\ pc = "nametable"
    /\ err = "none"
    /\ IF ~CanRead(pos, Mul(num_files, NameEntrySize)) THEN
           Abort("IOError") /\ UNCHANGED <<pos, unneccessary_file_name_table>>
       ELSE
           /\ unneccessary_file_name_table' =
                  read_file_name_table(ToInt(pos), ToInt(num_files))
           /\ pos' = Add(pos, Mul(num_files, NameEntrySize))
           /\ pc' = "loop" /\ err' = err
    /\ UNCHANGED <<file, overflow_checks, file_size, header, num_files,
                   file_type_table, entry, output>>

\* --------------------------------------------------------------- extraction

\* main.rs:168-175: the next index: seek to its block, read the inline entry.
BeginEntry ==
    /\ pc = "loop"
    /\ err = "none"
    /\ Lt(N(index), num_files)
    /\ LET addr == file_type_table[index + 1].addr
       IN  IF ~CanRead(addr, N(NameEntrySize)) THEN
               Abort("IOError") /\ pos' = addr
               /\ UNCHANGED <<filename_entry, stdout>>
           ELSE
               /\ filename_entry' = read_file_name_entry(ToInt(addr))
               /\ pos' = Add(addr, N(NameEntrySize))
               /\ stdout' = Append(stdout, index)
               /\ pc' = "empty" /\ err' = err
    /\ UNCHANGED <<file, overflow_checks, file_size, header, tables, index,
                   bytes, dump, stderr, payload_reads, writes>>

\* A guard that is off by one: the index before the last is never detected.
SeemsZeroBytes_OffByOne(i, n, p, table) ==
    Lt(N(i + 1), Sub(n, N(1))) /\ p = table[i + 2].addr

\* main.rs:177-178
SeemsZeroBytes(i, n, p, table) ==
    Lt(N(i), Sub(n, N(1))) /\ p = table[i + 2].addr

\* A skip that does not advance the index.
EmptyCheck_NoAdvance ==
    /\ pc = "empty"
    /\ err = "none"
    /\ IF SeemsZeroBytes(index, num_files, pos, file_type_table)
       THEN /\ stderr' = Append(stderr, <<index, "zero bytes">>)
            /\ index' = index
            /\ pc' = "loop"
       ELSE /\ pc' = "compare"
            /\ UNCHANGED <<stderr, index>>
    /\ UNCHANGED <<file, overflow_checks, err, pos, file_size, header, tables,
                   filename_entry, bytes, dump, stdout, payload_reads, writes>>

\* main.rs:177-186
EmptyCheck ==
    /\ pc = "empty"
    /\ err = "none"
    /\ IF SeemsZeroBytes(index, num_files, pos, file_type_table)
       THEN /\ stderr' = Append(stderr, <<index, "zero bytes">>)
            /\ index' = index + 1
            /\ pc' = "loop"
       ELSE /\ pc' = "compare"
            /\ UNCHANGED <<stderr, index>>
    /\ UNCHANGED <<file, overflow_checks, err, pos, file_size, header, tables,
                   filename_entry, bytes, dump, stdout, payload_reads, writes>>

\* Comparisons that leave fields out.
EntriesEqual_NamesOnly(a, b) == a.name = b.name
EntriesEqual_IgnoreName(a, b) == [a EXCEPT !.name = <<>>] = [b EXCEPT !.name = <<>>]

\* main.rs:188: FileNameEntry's derived PartialEq
EntriesEqual(a, b) == a = b

\* main.rs:188
Compare ==
    /\ pc = "compare"
    /\ err = "none"
    /\ IF EntriesEqual(filename_entry, unneccessary_file_name_table[index + 1])
       THEN pc' = "payload" /\ err' = err
       ELSE Abort("ConsistencyError")
    /\ UNCHANGED <<file, overflow_checks, pos, file_size, header, tables,
                   entry, output>>

\* A reader that takes the length from the wrong field of the entry.
PayloadLen_WrongField(e) == e.unk2

\* main.rs:190: the length handed to read_bytes_vec
PayloadLen(e) == e.size_in_bytes

\* main.rs:190.  A length beyond the end of the file fails the read (or, for
\* a length the allocator refuses, the allocation): the run stops either way.
ReadPayload ==
    /\ pc = "payload"
    /\ err = "none"
    /\ IF ~CanRead(pos, PayloadLen(filename_entry)) THEN
           Abort("IOError") /\ UNCHANGED <<pos, bytes, payload_reads>>
       ELSE
           /\ bytes' = read_bytes_vec(ToInt(pos), ToInt(PayloadLen(filename_entry)))
           /\ pos' = Add(pos, PayloadLen(filename_entry))
           /\ payload_reads' = payload_reads \cup {index}
           /\ pc' = "riff" /\ err' = err
    /\ UNCHANGED <<file, overflow_checks, file_size, header, tables, index,
                   filename_entry, dump, stdout, stderr, writes>>

\* main.rs:192-194: bytes[0..4] panics when bytes is shorter than 4
RiffCheck ==
    /\ pc = "riff"
    /\ err = "none"
    /\ IF ~ends_with(filename_entry.name, DotWav) THEN
           pc' = "write" /\ err' = err /\ stderr' = stderr
       ELSE IF Len(bytes) < 4 THEN
           Abort("SliceIndexPanic") /\ stderr' = stderr
       ELSE IF SubSeq(bytes, 1, 4) # RIFF THEN
           /\ stderr' = Append(stderr, <<index, "bad RIFF header">>)
           /\ pc' = "write" /\ err' = err
       ELSE
           pc' = "write" /\ err' = err /\ stderr' = stderr
    /\ UNCHANGED <<file, overflow_checks, pos, file_size, header, tables,
                   entry, dump, stdout, payload_reads, writes>>

\* main.rs:196: std::fs::write creates or replaces dump/<name>
WriteFile ==
    /\ pc = "write"
    /\ err = "none"
    /\ dump' = [x \in DOMAIN dump \cup {filename_entry.name} |->
                   IF x = filename_entry.name THEN bytes ELSE dump[x]]
    /\ writes' = Append(writes, index)
    /\ index' = index + 1
    /\ pc' = "loop"
    /\ UNCHANGED <<file, overflow_checks, err, pos, file_size, header, tables,
                   filename_entry, bytes, stdout, stderr, payload_reads>>

\* main.rs:168, 199: the range is exhausted, main returns Ok(())
Finish ==
    /\ pc = "loop"
    /\ err = "none"
    /\ ~Lt(N(index), num_files)
    /\ pc' = "done"
    /\ UNCHANGED <<file, overflow_checks, err, pos, file_size, header, tables,
                   entry, output>>

Next ==
    \/ ReadMagic
    \/ ReadHeader
    \/ ReadNumFiles
    \/ ReadTypeTable
    \/ CheckPosition
    \/ ReadNameTable
    \/ BeginEntry
    \/ EmptyCheck
    \/ Compare
    \/ ReadPayload
    \/ RiffCheck
    \/ WriteFile
    \/ Finish

Spec == Init /\ [][Next]_vars

\* ------------------------------------------------ vocabulary of the claims

\* The header fields as stored in the file (a file of at least 16 bytes).
HasHeader     == FileLen >= HeaderSize
TypeTableStart == read_u32(4)
TypeTableEnd   == read_u32(8)
NameTableByteSize == read_u32(12)

\* The statements of main grouped into the stages of the pipeline.
ExtractionPcs == {"loop", "empty", "compare", "payload", "riff", "write", "done"}
Stage(p) ==
    CASE p \in {"magic", "header"}                  -> 1
      [] p \in {"numfiles", "typetable", "position"} -> 2
      [] p = "nametable"                              -> 3
      [] OTHER                                        -> 4

Range(q) == {q[k] : k \in 1..Len(q)}
Announced(i) == i \in Range(stdout)
Written(i)   == i \in Range(writes)
Warned(i, what) == <<i, what>> \in Range(stderr)

\* Entry i (0-based) of the tables the run has read.
NumFiles      == ToInt(num_files)
DataOffset(i) == file_type_table[i + 1].addr
TailEntry(i)  == unneccessary_file_name_table[i + 1]
InlineEntry(i) == read_file_name_entry(ToInt(DataOffset(i)))
IsLast(i)     == N(i + 1) = num_files

\* Empty-file detection applies to i: i is not the last index and the next
\* block starts right after the inline entry of i.
NoPayloadLayout(i) ==
    ~IsLast(i) /\ Add(DataOffset(i), N(NameEntrySize)) = DataOffset(i + 1)

ArchiveBytes(off, len) == [k \in 1..len |-> FileByte(off + k - 1)]

\* The payload the archive declares for i: sizeInBytes bytes after the
\* inline entry.
DeclaredPayload(i) ==
    ArchiveBytes(ToInt(DataOffset(i)) + NameEntrySize, ToInt(TailEntry(i).size_in_bytes))

\* The file holds the bytes that the archive declares for i.
PayloadInFile(i) ==
    CanRead(Add(DataOffset(i), N(NameEntrySize)), TailEntry(i).size_in_bytes)

NamesDistinct ==
    \A i, j \in 0..(NumFiles - 1) : i # j => TailEntry(i).name # TailEntry(j).name

FieldNames == {"index", "name", "unk2", "size_in_bytes", "sample_rate", "unk5",
               "probably_channel_count"}
DifferInSomeField(a, b) == \E f \in FieldNames : a[f] # b[f]

\* ------------------------------------------------------------------ claims

\* C1 (round trip): after a completed run over an archive whose entry names
\* are pairwise distinct, every index that empty-file detection does not skip
\* has an output file named by its name entry whose content is the
\* sizeInBytes archive bytes that start 88 bytes after its dataOffset.
C1_RoundTrip ==
    (pc = "done" /\ NamesDistinct) =>
        \A i \in 0..(NumFiles - 1) :
            ~NoPayloadLayout(i) =>
                /\ TailEntry(i).name \in DOMAIN dump
                /\ PayloadInFile(i)
                /\ dump[TailEntry(i).name] = DeclaredPayload(i)

\* A completed run that skipped one entry and wrote another.
C1_Witness ==
    /\ pc = "done" /\ NamesDistinct /\ NumFiles = 2
    /\ NoPayloadLayout(0) /\ Written(1) /\ Len(dump[TailEntry(1).name]) = 3

\* C2 (consistency check): once the inline entry of an index that is not
\* skipped has been read and differs from the tail entry in some field, the
\* run is before the check or stopped at it with ConsistencyError: no payload
\* was read and no file written for that index, and no later index started.
C2_ConsistencyAbort ==
    \A i \in 0..(Len(stdout) - 1) :
        (Announced(i) /\ ~NoPayloadLayout(i)
            /\ DifferInSomeField(InlineEntry(i), TailEntry(i))) =>
            /\ index = i
            /\ stdout[Len(stdout)] = i
            /\ i \notin payload_reads
            /\ ~Written(i)
            /\ \/ pc \in {"empty", "compare"} /\ err = "none"
               \/ pc = "compare" /\ err = "ConsistencyError"

\* The second entry's copies differ: the first file is on disk, the run
\* stopped at the check of the second.
C2_Witness ==
    /\ pc = "compare" /\ err = "ConsistencyError"
    /\ index = 1 /\ Written(0)
    /\ DifferInSomeField(InlineEntry(1), TailEntry(1))

\* C3 (zero-byte detection): at an index that is not the last and whose
\* dataOffset + 88 is the next dataOffset, reading the inline entry succeeds,
\* and the step after it reports the warning, reads no payload, writes no
\* file, does not abort, and leaves the run at the loop head with the next
\* index, which is still inside the table.
C3_ZeroByteSkip ==
    [][ /\ (pc = "loop" /\ Lt(N(index), num_files) /\ NoPayloadLayout(index)) =>
              (pc' = "empty" /\ err' = "none" /\ index' = index)
        /\ (pc = "empty" /\ NoPayloadLayout(index)) =>
              /\ stderr' = Append(stderr, <<index, "zero bytes">>)
              /\ index \notin payload_reads /\ payload_reads' = payload_reads
              /\ ~Written(index) /\ writes' = writes /\ dump' = dump
              /\ err' = "none"
              /\ pc' = "loop" /\ index' = index + 1 /\ Lt(N(index'), num_files)
      ]_vars

\* Index 0 was skipped with the warning and index 1 has been started.
C3_Witness ==
    /\ Warned(0, "zero bytes") /\ ~Written(0) /\ 0 \notin payload_reads
    /\ Announced(1) /\ pc = "empty" /\ index = 1

\* The name of i ends in ".wav" and its payload, as read, does not start
\* with "RIFF".
WavWithoutRiff(i) ==
    /\ ends_with(InlineEntry(i).name, DotWav)
    /\ LET len == ToInt(InlineEntry(i).size_in_bytes)
       IN  len < 4 \/ ArchiveBytes(ToInt(DataOffset(i)) + NameEntrySize, 4) # RIFF

\* C4 (WAV signature, as claimed): an entry whose payload has been read,
\* whose name ends in ".wav" and whose payload does not start with "RIFF",
\* whatever its length, is at the signature check, or has the warning and is
\* about to be written with its declared bytes, or has the warning and was
\* written and the run went on to the next index.
C4_WavWarningNonFatal ==
    \A i \in payload_reads :
        WavWithoutRiff(i) =>
            \/ pc = "riff" /\ index = i /\ err = "none"
            \/ /\ Warned(i, "bad RIFF header")
               /\ pc = "write" /\ index = i
               /\ bytes = DeclaredPayload(i)
            \/ /\ Warned(i, "bad RIFF header")
               /\ Written(i) /\ index > i
               /\ (writes[Len(writes)] = i => dump[InlineEntry(i).name] = DeclaredPayload(i))

\* C5 (size cross-validation, as claimed): when the file size is not the
\* exact sum typeTableEnd + nameTableByteSize, or the count stored at
\* typeTableStart times 88 is not exactly nameTableByteSize, the run cannot
\* complete, writes nothing, and if it has ended it ended in a FormatError
\* (an overflow panic of the arithmetic is counted as one).
SizesDisagree ==
    /\ HasHeader
    /\ \/ N(FileLen) # Add(TypeTableEnd, NameTableByteSize)
       \/ /\ CanRead(TypeTableStart, N(4))
          /\ NameTableByteSize # Mul(read_u32(ToInt(TypeTableStart)), NameEntrySize)
C5_SizeMismatchIsFormatError ==
    SizesDisagree =>
        /\ pc \notin ExtractionPcs
        /\ writes = <<>> /\ DOMAIN dump = {}
        /\ err # "none" => err \in {"FormatError", "ArithmeticOverflow"}

\* Some entry of the type table that was read is out of range or not SND2.
BadTypeEntry ==
    \E i \in 1..Len(file_type_table) :
        \/ ~Lt(file_type_table[i].addr, N(FileLen))
        \/ file_type_table[i].kind # KindSND2

\* C6 (type-entry validation): when an entry of the type table has
\* dataOffset >= fileSize or a kind other than SND2, the run has stopped at
\* the type table with FormatError, the cursor at the end of the entries: the
\* tail table is unread, no block was sought, nothing was written.
C6_BadTypeEntryIsFormatError ==
    BadTypeEntry =>
        /\ pc = "typetable" /\ err = "FormatError"
        /\ unneccessary_file_name_table = <<>>
        /\ pos = Add(Add(filetypes_start, N(4)), Mul(num_files, TypeEntrySize))
        /\ stdout = <<>> /\ payload_reads = {}
        /\ writes = <<>> /\ DOMAIN dump = {}

\* A table of two entries whose second entry is bad.
C6_Witness ==
    /\ pc = "typetable" /\ err = "FormatError"
    /\ Len(file_type_table) = 2
    /\ Lt(file_type_table[1].addr, N(FileLen)) /\ file_type_table[1].kind = KindSND2
    /\ BadTypeEntry

\* C7 (ordering): every step stays in its stage or moves to the next one
\* (header, type table, tail name table, extraction); the tables are assigned
\* only in their own stage; an index is started only in extraction, is the
\* number of indices started before it, and every index before it was written
\* or skipped; a file is written only in extraction, after the tail table was
\* read, for the index started last, and at most once per index.
C7_Ordering ==
    [][ /\ Stage(pc') \in {Stage(pc), Stage(pc) + 1}
        /\ (header' # header => Stage(pc) = 1)
        /\ (<<num_files, file_type_table>>' # <<num_files, file_type_table>> =>
                Stage(pc) = 2)
        /\ (unneccessary_file_name_table' # unneccessary_file_name_table =>
                Stage(pc) = 3)
        /\ (stdout' # stdout =>
                /\ Stage(pc) = 4
                /\ stdout' = Append(stdout, Len(stdout))
                /\ \A j \in Range(stdout) : Written(j) \/ Warned(j, "zero bytes"))
        /\ ((writes' # writes \/ dump' # dump) =>
                /\ Stage(pc) = 4
                /\ Len(unneccessary_file_name_table) = NumFiles
                /\ stdout # <<>>
                /\ writes' = Append(writes, stdout[Len(stdout)])
                /\ ~Written(stdout[Len(stdout)]))
      ]_vars

\* A completed run of two entries, both written, in order.
C7_Witness ==
    pc = "done" /\ stdout = <<0, 1>> /\ writes = <<0, 1>> /\ stderr = <<>>

\* typeTableStart + 4 + 8 * numFiles, for the values the run has read.
ExactTableEnd == Add(Add(filetypes_start, N(4)), Mul(num_files, TypeEntrySize))

\* C8 (type-table boundary): the run is in the tail-table stage or later
\* only if typeTableEnd = typeTableStart + 4 + 8 * numFiles; a run that has
\* read the type table and has stopped while the two differ has stopped with
\* FormatError, the cursor after the type entries, the tail table unread and
\* nothing written.
C8_TableBoundary ==
    /\ Stage(pc) \in {3, 4} => filetypes_end = ExactTableEnd
    /\ ( /\ err # "none"
         /\ pc = "position" \/ (pc = "typetable" /\ file_type_table # <<>>)
         /\ filetypes_end # ExactTableEnd ) =>
            /\ err = "FormatError"
            /\ pos = ExactTableEnd
            /\ unneccessary_file_name_table = <<>>
            /\ stdout = <<>> /\ writes = <<>> /\ DOMAIN dump = {}

\* Padding after valid type entries: the position check stopped the run.
C8_Witness ==
    /\ pc = "position" /\ err = "FormatError"
    /\ Len(file_type_table) = 2
    /\ Lt(ExactTableEnd, filetypes_end)

RawInline(i) == ArchiveBytes(ToInt(DataOffset(i)), NameEntrySize)
RawTail(i)   == ArchiveBytes(ToInt(filetypes_end) + NameEntrySize * i, NameEntrySize)

\* C10 (raw-record identity, as claimed): for every index whose payload was
\* read and whose file was written, the inline record and the tail record
\* are the same 88 bytes.
C10_RawIdentity ==
    \A i \in payload_reads : Written(i) => RawInline(i) = RawTail(i)

Min(S) == CHOOSE x \in S : \A y \in S : x <= y
\* The bytes of a record that take part in the comparison: the index, the
\* name field up to its first nul byte, and the five fields after the name.
ComparedBytes(r) ==
    LET nm   == SubSeq(r, 5, 4 + NameFieldLen)
        nuls == {k \in 1..NameFieldLen : nm[k] = 0}
    IN  [index  |-> SubSeq(r, 1, 4),
         name   |-> IF nuls = {} THEN nm ELSE SubSeq(nm, 1, Min(nuls) - 1),
         fields |-> SubSeq(r, 5 + NameFieldLen, NameEntrySize)]

\* C10 (amended): for every index whose payload was read, the inline record
\* and the tail record agree in the index bytes, in the name field up to its
\* first nul byte and in the 20 bytes after the name field; an index that is
\* not skipped and whose records differ in one of those bytes has no payload
\* read and no file written, and the run is before the comparison or stopped
\* at it with ConsistencyError.
C10_ComparedBytesIdentity ==
    \A i \in Range(stdout) :
        LET same == ComparedBytes(RawInline(i)) = ComparedBytes(RawTail(i))
        IN  /\ i \in payload_reads => same
            /\ (~NoPayloadLayout(i) /\ ~same) =>
                  /\ ~Written(i) /\ index = i
                  /\ pc \in {"empty", "compare"}
                  /\ err \in {"none", "ConsistencyError"}

\* A file was written although its two records differ, in a byte after the
\* first nul of the name field.
C10_Witness ==
    \E i \in payload_reads :
        /\ Written(i)
        /\ RawInline(i) # RawTail(i)
        /\ ComparedBytes(RawInline(i)) = ComparedBytes(RawTail(i))

====
